---------------------------- MODULE Spec2Model ----------------------------
(***************************************************************************)
(* Model of the NeuTTS Air voice cloning API server (src/api_server.py).   *)
(*                                                                         *)
(* Every handler of the server is an `async def` coroutine run by one      *)
(* event loop: a handler keeps the loop from the moment it is scheduled    *)
(* until it awaits or ends.  The only await of the file is                 *)
(* `await file.read()` in clone_voice (line 119).  The variable `running`  *)
(* is the request that holds the loop (0: the loop is free).               *)
(*                                                                         *)
(* Strings that the code takes apart (texts, file names) are sequences of  *)
(* one-character strings.                                                  *)
(***************************************************************************)
EXTENDS Integers, Sequences, FiniteSets, TLC

---------------------------------------------------------------------------
(* Bounds of the model *)

\* number of request slots (requests that can be in flight together)
NReq == 2
\* total number of requests the clients send
MaxOps == 2
\* longest text the segmenter specification draws
MaxLen == 7
\* largest max_chars the segmenter specification draws
MaxM == 6

---------------------------------------------------------------------------
(* Strings *)

None == "None"

Rep(c, n) == [i \in 1..n |-> c]

Whitespace == {" ", "\n"}

\* str.lower() on the characters the model uses
LowerChar(c) ==
  CASE c = "W" -> "w"
    [] c = "A" -> "a"
    [] c = "V" -> "v"
    [] OTHER -> c

Lower(s) == [i \in 1..Len(s) |-> LowerChar(s[i])]

EndsWith(s, suffix) ==
  /\ Len(s) >= Len(suffix)
  /\ SubSeq(s, Len(s) - Len(suffix) + 1, Len(s)) = suffix

\* str.replace(old, new) for single characters
ReplaceChar(s, old, new) == [i \in 1..Len(s) |-> IF s[i] = old THEN new ELSE s[i]]

\* str.split(sep) for a single-character separator: keeps empty pieces
RECURSIVE Split(_, _)
Split(s, sep) ==
  IF \A i \in 1..Len(s) : s[i] # sep
  THEN <<s>>
  ELSE LET k == CHOOSE i \in 1..Len(s) :
                  s[i] = sep /\ \A j \in 1..(i - 1) : s[j] # sep
       IN  <<SubSeq(s, 1, k - 1)>> \o Split(SubSeq(s, k + 1, Len(s)), sep)

\* str.strip(): drops leading and trailing whitespace
Strip(s) ==
  IF \A i \in 1..Len(s) : s[i] \in Whitespace
  THEN <<>>
  ELSE LET lo == CHOOSE i \in 1..Len(s) :
                   s[i] \notin Whitespace /\ \A j \in 1..(i - 1) : s[j] \in Whitespace
           hi == CHOOSE i \in 1..Len(s) :
                   s[i] \notin Whitespace /\ \A j \in (i + 1)..Len(s) : s[j] \in Whitespace
       IN  SubSeq(s, lo, hi)

---------------------------------------------------------------------------
(* chunk_text *)

\* text.replace('!', '.').replace('?', '.').split('.')
Sentences(text) == Split(ReplaceChar(ReplaceChar(text, "!", "."), "?", "."), ".")

\* ChunkStep without the two characters of the separator in the test
ChunkStepNoSeparator(st, raw, max_chars) ==
  LET sentence == Strip(raw)
  IN  IF sentence = <<>>
      THEN st
      ELSE IF Len(st.current_chunk) + Len(sentence) <= max_chars
           THEN [st EXCEPT !.current_chunk = @ \o sentence \o <<".", " ">>]
           ELSE [chunks |-> IF st.current_chunk # <<>>
                            THEN Append(st.chunks, Strip(st.current_chunk))
                            ELSE st.chunks,
                 current_chunk |-> sentence \o <<".", " ">>]

\* one iteration of the loop over the sentences; st = [chunks, current_chunk]
ChunkStep(st, raw, max_chars) ==
  LET sentence == Strip(raw)
  IN  IF sentence = <<>>
      THEN st
      ELSE IF Len(st.current_chunk) + Len(sentence) + 2 <= max_chars
           THEN [st EXCEPT !.current_chunk = @ \o sentence \o <<".", " ">>]
           ELSE [chunks |-> IF st.current_chunk # <<>>
                            THEN Append(st.chunks, Strip(st.current_chunk))
                            ELSE st.chunks,
                 current_chunk |-> sentence \o <<".", " ">>]

RECURSIVE ChunkLoop(_, _, _, _)
ChunkLoop(sentences, i, st, max_chars) ==
  IF i > Len(sentences)
  THEN st
  ELSE ChunkLoop(sentences, i + 1, ChunkStep(st, sentences[i], max_chars), max_chars)

\* ChunkFinish without the flush of lines 191-192: the last current_chunk
\* is dropped
ChunkFinishNoFlush(st, text) ==
  IF st.chunks # <<>> THEN st.chunks ELSE <<text>>

\* ChunkFinish without the fallback of line 194: the chunks as they are
ChunkFinishNoFallback(st, text) ==
  IF st.current_chunk # <<>>
  THEN Append(st.chunks, Strip(st.current_chunk))
  ELSE st.chunks

\* the chunks after the loop: the last current_chunk is flushed, [text] if none
ChunkFinish(st, text) ==
  LET chunks == IF st.current_chunk # <<>>
                THEN Append(st.chunks, Strip(st.current_chunk))
                ELSE st.chunks
  IN  IF chunks # <<>> THEN chunks ELSE <<text>>

\* chunk_text without the early return of lines 172-173
chunk_textAlwaysSplits(text, max_chars) ==
  ChunkFinish(ChunkLoop(Sentences(text), 1,
                        [chunks |-> <<>>, current_chunk |-> <<>>], max_chars),
              text)

chunk_text(text, max_chars) ==
  IF Len(text) <= max_chars
  THEN <<text>>
  ELSE ChunkFinish(ChunkLoop(Sentences(text), 1,
                             [chunks |-> <<>>, current_chunk |-> <<>>], max_chars),
                   text)

---------------------------------------------------------------------------
(* Inputs the clients send *)

Names == {"v1", "v2"}

\* upload file names: two accepted (one in upper case), one rejected
FileWav == <<"a", ".", "w", "a", "v">>
FileUpper == <<"b", ".", "W", "A", "V">>
FileTxt == <<"c", ".", "t", "x", "t">>

\* the uploads the clients send: file name, reference_text (Optional[str])
\* and what the uploaded bytes decode to ("voiced": a waveform with a
\* non-zero peak; "silent": samples that are all zero; "undecodable": bytes
\* librosa.load raises on, or no samples at all, on which np.max raises)
Uploads ==
  {[filename |-> FileWav, reference_text |-> "hello", audio |-> "voiced"],
   [filename |-> FileUpper, reference_text |-> None, audio |-> "silent"],
   [filename |-> FileWav, reference_text |-> None, audio |-> "undecodable"],
   [filename |-> FileTxt, reference_text |-> "hello", audio |-> "voiced"]}

\* texts of generate requests, by number: a short text, a text of three
\* chunks, and a long text without any sentence
Text(k) ==
  CASE k = 1 -> <<"H", "i", ".">>
    [] k = 2 -> Rep("a", 99) \o <<".", " ">> \o Rep("b", 99) \o <<"?", " ">>
                \o Rep("c", 99) \o <<"!">>
    [] k = 3 -> Rep(" ", 200) \o <<".">>
TextIds == {1, 2, 3}

\* waveforms tts.infer can return (sequences of samples)
Waves == {<<1>>, <<2, 3>>}

\* max_chars generate_speech passes to chunk_text
GenMaxChars == 200

---------------------------------------------------------------------------
(* The registry: a Python dict, kept as the sequence of its items in      *)
(* insertion order *)

DictHas(d, k) == \E i \in 1..Len(d) : d[i].name = k

DictGet(d, k) == d[CHOOSE i \in 1..Len(d) : d[i].name = k]

DictKeys(d) == [i \in 1..Len(d) |-> d[i].name]

\* DictSet that never replaces: a second item with the same name is added
DictSetAppend(d, v) == Append(d, v)

\* d[k] = v: an existing key keeps its place
DictSet(d, v) ==
  IF DictHas(d, v.name)
  THEN [i \in 1..Len(d) |-> IF d[i].name = v.name THEN v ELSE d[i]]
  ELSE Append(d, v)

\* del d[k]
DictDel(d, k) == SelectSeq(d, LAMBDA e : e.name # k)

---------------------------------------------------------------------------
(* Paths under VOICES_DIR *)

TempPath(id) == <<id, "_temp">>
WavPath(id) == <<id, ".wav">>
CodesPath(id) == <<id, "_codes.pt">>

\* file.filename.lower().endswith(('.wav', '.mp3', '.flac', '.ogg', '.webm'))
ValidExt(filename) ==
  \E ext \in {<<".", "w", "a", "v">>, <<".", "m", "p", "3">>,
              <<".", "f", "l", "a", "c">>, <<".", "o", "g", "g">>,
              <<".", "w", "e", "b", "m">>} :
    EndsWith(Lower(filename), ext)

\* the profile clone_voice stores
NewProfile(rq) ==
  [name |-> rq.voice_name,
   id |-> rq.voice_id,
   file |-> WavPath(rq.voice_id),
   codes_file |-> CodesPath(rq.voice_id),
   reference_text |-> rq.reference_text,
   original_filename |-> rq.filename]

\* one item of the list_voices answer
ListEntry(p) ==
  [name |-> p.name,
   id |-> p.id,
   original_file |-> p.original_filename,
   has_reference_text |-> p.reference_text # None]

ListOutput(d) == [i \in 1..Len(d) |-> ListEntry(d[i])]

\* np.concatenate(audio_segments)
RECURSIVE Concatenate(_)
Concatenate(segs) ==
  IF segs = <<>> THEN <<>> ELSE Head(segs) \o Concatenate(Tail(segs))

\* OutputWav without the concatenation: the first segment alone
OutputWavFirst(audio_segments) == audio_segments[1]

\* lines 236-239: the waveform generate_speech writes
OutputWav(audio_segments) ==
  IF Len(audio_segments) > 1
  THEN Concatenate(audio_segments)
  ELSE audio_segments[1]

---------------------------------------------------------------------------
(* State *)

VARIABLES
  voice_profiles,   \* the global dict, as a sequence of profiles
  profiles_file,    \* profiles.json: [st: "absent" | "ok" | "truncated", data]
  storage,          \* the files that exist under VOICES_DIR
  outputs,          \* the requests that wrote a waveform under OUTPUTS_DIR
  uuid_next,        \* the next uuid4 (all distinct)
  running,          \* the request that holds the event loop, 0 if none
  engine,           \* the requests with a call into tts in progress
  req,              \* per request slot: its handler's position and locals
  resp,             \* the answer sent last
  started,          \* number of requests sent so far
  hist,             \* per voice name: what the finished requests did to it
  ct                \* the segmenter run of SpecChunk

vars == <<voice_profiles, profiles_file, storage, outputs, uuid_next, running,
          engine, req, resp, started, hist, ct>>

Reqs == 1..NReq

\* no profile (Python's None where a profile is expected)
NoProfile ==
  [name |-> None, id |-> 0, file |-> <<>>, codes_file |-> <<>>,
   reference_text |-> None, original_filename |-> <<>>]

NoLast == [id |-> 0, original_filename |-> <<>>, reference_text |-> None]

NoHist == [last |-> NoLast, clones |-> 0, fresh |-> FALSE, gone |-> FALSE]

IdleReq ==
  [pc |-> "idle", kind |-> None, voice_name |-> None, filename |-> <<>>,
   reference_text |-> None, audio |-> None, text |-> 0, voice_id |-> 0,
   profile |-> NoProfile, text_chunks |-> <<>>, audio_segments |-> <<>>,
   calls |-> <<>>, code |-> 0, out |-> <<>>, seen |-> NoHist, op |-> 0]

\* the answer to request rq: its status code and body, with the request
Answer(rq, code, out) == [rq EXCEPT !.pc = "done", !.code = code, !.out = out]

IdleCt == [pc |-> "off", text |-> <<>>, max_chars |-> 0, result |-> <<>>]

\* a profile cloned by an earlier run of the server
OldProfile ==
  [name |-> "v1", id |-> 0, file |-> WavPath(0), codes_file |-> CodesPath(0),
   reference_text |-> "hello", original_filename |-> FileWav]

\* what VOICES_DIR holds when the server starts: nothing, or the registry
\* file and the two files of one profile
StartDirs ==
  {[file |-> [st |-> "absent", data |-> <<>>], files |-> {}],
   [file |-> [st |-> "ok", data |-> <<OldProfile>>],
    files |-> {WavPath(0), CodesPath(0)}]}

\* the history of the names at start-up: a profile of the registry file was
\* left there by a successful clone
StartHist(profiles) ==
  [n \in Names |->
     IF DictHas(profiles, n)
     THEN [last |-> [id |-> DictGet(profiles, n).id,
                     original_filename |-> DictGet(profiles, n).original_filename,
                     reference_text |-> DictGet(profiles, n).reference_text],
           clones |-> 1, fresh |-> TRUE, gone |-> FALSE]
     ELSE NoHist]

\* load_voice_profiles (lines 43-50): the dict is read from profiles.json
\* if the file exists
load_voice_profiles(file) == IF file.st = "absent" THEN <<>> ELSE file.data

\* the server after start-up (lines 20-26, 59)
InitServer ==
  /\ \E d \in StartDirs :
       /\ profiles_file = d.file
       /\ storage = d.files
       /\ voice_profiles = load_voice_profiles(d.file)
       /\ hist = StartHist(load_voice_profiles(d.file))
  /\ outputs = {}
  /\ uuid_next = 1
  /\ running = 0
  /\ engine = {}
  /\ req = [r \in Reqs |-> IdleReq]
  /\ resp = IdleReq
  /\ started = 0

Init == InitServer /\ ct = IdleCt

---------------------------------------------------------------------------
(* What the finished requests did to a voice name (read by the properties  *)
(* only, never by the handlers).  `last` is what the last successful clone *)
(* since the last delete was sent and answered, `clones` counts the        *)
(* successful clones since the last delete (2 stands for two or more),     *)
(* `fresh` says that no clone or delete of the name has ended since that   *)
(* clone, `gone` that the last successful clone or delete of the name was  *)
(* a delete. *)

HistCloneOk(h, rq) ==
  [h EXCEPT ![rq.voice_name] =
     [last |-> [id |-> rq.voice_id, original_filename |-> rq.filename,
                reference_text |-> rq.reference_text],
      clones |-> IF @.clones < 2 THEN @.clones + 1 ELSE 2,
      fresh |-> TRUE, gone |-> FALSE]]

HistCloneErr(h, n) == [h EXCEPT ![n].fresh = FALSE]

HistDeleteOk(h, n) == [h EXCEPT ![n] = [NoHist EXCEPT !.gone = TRUE]]

HistDeleteErr(h, n) == [h EXCEPT ![n] = [NoHist EXCEPT !.gone = h[n].gone]]

---------------------------------------------------------------------------
(* Requests *)

\* a client may send a request into slot r (the first free one); its
\* handler starts when the loop is free
CanStart(r) ==
  /\ running = 0
  /\ req[r].pc = "idle"
  /\ \A q \in 1..(r - 1) : req[q].pc # "idle"
  /\ started < MaxOps

\* the request r as its handler starts
NewReq(kind, voice_name) ==
  [IdleReq EXCEPT !.kind = kind, !.voice_name = voice_name,
                  !.seen = IF voice_name \in Names THEN hist[voice_name] ELSE NoHist,
                  !.op = started + 1]

\* the handler of r ends with this answer; the slot is free again
Respond(r, rq, code, out) ==
  /\ resp' = Answer(rq, code, out)
  /\ req' = [req EXCEPT ![r] = IdleReq]

---------------------------------------------------------------------------
(* save_voice_profiles (lines 52-56): open(profiles_file, 'w') truncates   *)
(* the file, json.dump writes the whole dict.  Either can raise. *)

SaveOutcomes == {"ok", "open_fails", "dump_fails"}

SavedFile(outcome, old, profiles) ==
  CASE outcome = "ok" -> [st |-> "ok", data |-> profiles]
    [] outcome = "open_fails" -> old
    [] outcome = "dump_fails" -> [st |-> "truncated", data |-> <<>>]

---------------------------------------------------------------------------
(* clone_voice (lines 95-165) *)

\* lines 109-119: the extension check, the uuid, up to `await file.read()`.
\* The HTTPException(400) of line 112 is raised inside the try block and
\* caught by `except Exception` (line 164), which answers 500.
CloneBegin(r, filename, voice_name, reference_text, audio) ==
  LET rq == [NewReq("clone", voice_name) EXCEPT
               !.filename = filename, !.reference_text = reference_text,
               !.audio = audio]
  IN  /\ CanStart(r)
      /\ started' = started + 1
      /\ IF ~ValidExt(filename)
         THEN /\ Respond(r, rq, 500, <<>>)
              /\ hist' = HistCloneErr(hist, voice_name)
              /\ UNCHANGED uuid_next
         ELSE /\ req' = [req EXCEPT ![r] = [rq EXCEPT !.pc = "c_read",
                                                      !.voice_id = uuid_next]]
              /\ uuid_next' = uuid_next + 1
              /\ UNCHANGED <<hist, resp>>
      /\ UNCHANGED <<voice_profiles, profiles_file, storage, outputs, running,
                     engine, ct>>

\* lines 119-121: the read is over, the handler takes the loop again and
\* writes the upload to the temporary file
CloneWriteTemp(r) ==
  /\ req[r].pc = "c_read"
  /\ running = 0
  /\ running' = r
  /\ storage' = storage \cup {TempPath(req[r].voice_id)}
  /\ req' = [req EXCEPT ![r].pc = "c_load"]
  /\ UNCHANGED <<voice_profiles, profiles_file, outputs, uuid_next, engine,
                 resp, started, hist, ct>>

\* lines 125-134: librosa.load raises on bytes it cannot decode, np.max
\* on an empty array; a silent waveform is divided by zero without an
\* exception (numpy yields NaN samples) and is written like any other
CloneNormalize(r) ==
  /\ req[r].pc = "c_load"
  /\ running = r
  /\ IF req[r].audio = "undecodable"
     THEN /\ Respond(r, req[r], 500, <<>>)
          /\ running' = 0
          /\ hist' = HistCloneErr(hist, req[r].voice_name)
          /\ UNCHANGED storage
     ELSE /\ storage' = (storage \cup {WavPath(req[r].voice_id)})
                          \ {TempPath(req[r].voice_id)}
          /\ req' = [req EXCEPT ![r].pc = "c_encode"]
          /\ UNCHANGED <<running, hist, resp>>
  /\ UNCHANGED <<voice_profiles, profiles_file, outputs, uuid_next, engine,
                 started, ct>>

\* CloneEncodeCall with the call handed to a worker thread and awaited: the
\* loop is free while the engine works
CloneEncodeCallOffLoop(r) ==
  /\ req[r].pc = "c_encode"
  /\ running = r
  /\ running' = 0
  /\ engine' = engine \cup {r}
  /\ req' = [req EXCEPT ![r].pc = "c_encoding"]
  /\ UNCHANGED <<voice_profiles, profiles_file, storage, outputs, uuid_next,
                 resp, started, hist, ct>>

\* line 140: tts.encode_reference is entered
CloneEncodeCall(r) ==
  /\ req[r].pc = "c_encode"
  /\ running = r
  /\ engine' = engine \cup {r}
  /\ req' = [req EXCEPT ![r].pc = "c_encoding"]
  /\ UNCHANGED <<voice_profiles, profiles_file, storage, outputs, uuid_next,
                 running, resp, started, hist, ct>>

\* CloneEncodeReturn without the torch.save of line 145
CloneEncodeReturnNoSave(r, ok) ==
  /\ req[r].pc = "c_encoding"
  /\ running = r
  /\ engine' = engine \ {r}
  /\ IF ok
     THEN /\ req' = [req EXCEPT ![r].pc = "c_store"]
          /\ UNCHANGED <<running, hist, resp>>
     ELSE /\ Respond(r, req[r], 500, <<>>)
          /\ running' = 0
          /\ hist' = HistCloneErr(hist, req[r].voice_name)
  /\ UNCHANGED <<voice_profiles, profiles_file, storage, outputs, uuid_next,
                 started, ct>>

\* lines 140-145: tts.encode_reference returns or raises; the codes are saved
CloneEncodeReturn(r, ok) ==
  /\ req[r].pc = "c_encoding"
  /\ running = r
  /\ engine' = engine \ {r}
  /\ IF ok
     THEN /\ storage' = storage \cup {CodesPath(req[r].voice_id)}
          /\ req' = [req EXCEPT ![r].pc = "c_store"]
          /\ UNCHANGED <<running, hist, resp>>
     ELSE /\ Respond(r, req[r], 500, <<>>)
          /\ running' = 0
          /\ hist' = HistCloneErr(hist, req[r].voice_name)
          /\ UNCHANGED storage
  /\ UNCHANGED <<voice_profiles, profiles_file, outputs, uuid_next, started, ct>>

\* CloneStore that writes the registry file in the same step as the dict
CloneStoreWritesThrough(r) ==
  /\ req[r].pc = "c_store"
  /\ running = r
  /\ voice_profiles' = DictSet(voice_profiles, NewProfile(req[r]))
  /\ profiles_file' = [st |-> "ok", data |-> voice_profiles']
  /\ req' = [req EXCEPT ![r].pc = "c_save"]
  /\ UNCHANGED <<storage, outputs, uuid_next, running, engine, resp, started,
                 hist, ct>>

\* lines 148-154: voice_profiles[voice_name] = {...}
CloneStore(r) ==
  /\ req[r].pc = "c_store"
  /\ running = r
  /\ voice_profiles' = DictSet(voice_profiles, NewProfile(req[r]))
  /\ req' = [req EXCEPT ![r].pc = "c_save"]
  /\ UNCHANGED <<profiles_file, storage, outputs, uuid_next, running, engine,
                 resp, started, hist, ct>>

\* lines 155-165: save_voice_profiles(), then the answer; an exception of
\* the save is answered 500
CloneSave(r, outcome) ==
  /\ req[r].pc = "c_save"
  /\ running = r
  /\ running' = 0
  /\ profiles_file' = SavedFile(outcome, profiles_file, voice_profiles)
  /\ IF outcome = "ok"
     THEN /\ Respond(r, req[r], 200, <<req[r].voice_id, req[r].voice_name>>)
          /\ hist' = HistCloneOk(hist, req[r])
     ELSE /\ Respond(r, req[r], 500, <<>>)
          /\ hist' = HistCloneErr(hist, req[r].voice_name)
  /\ UNCHANGED <<voice_profiles, storage, outputs, uuid_next, engine, started, ct>>

---------------------------------------------------------------------------
(* generate_speech (lines 196-259) *)

\* lines 211-216: the existence check; the HTTPException(404) carries the
\* keys of the registry and is re-raised as it is (line 256)
GenBegin(r, text, voice_name) ==
  LET rq == [NewReq("generate", voice_name) EXCEPT !.text = text]
  IN  /\ CanStart(r)
      /\ started' = started + 1
      /\ IF ~DictHas(voice_profiles, voice_name)
         THEN /\ Respond(r, rq, 404, DictKeys(voice_profiles))
              /\ UNCHANGED running
         ELSE /\ req' = [req EXCEPT ![r] = [rq EXCEPT !.pc = "g_load"]]
              /\ running' = r
              /\ UNCHANGED resp
      /\ UNCHANGED <<voice_profiles, profiles_file, storage, outputs, uuid_next,
                     engine, hist, ct>>

\* lines 219-227: the profile, torch.load of its codes file, chunk_text.
\* A missing key or a missing file raises, answered 500 (line 258).
GenLoad(r) ==
  /\ req[r].pc = "g_load"
  /\ running = r
  /\ IF /\ DictHas(voice_profiles, req[r].voice_name)
        /\ DictGet(voice_profiles, req[r].voice_name).codes_file \in storage
     THEN /\ req' = [req EXCEPT
                       ![r].pc = "g_infer",
                       ![r].profile = DictGet(voice_profiles, req[r].voice_name),
                       ![r].text_chunks = chunk_text(Text(req[r].text), GenMaxChars)]
          /\ UNCHANGED <<running, resp>>
     ELSE /\ Respond(r, req[r], 500, <<>>)
          /\ running' = 0
  /\ UNCHANGED <<voice_profiles, profiles_file, storage, outputs, uuid_next,
                 engine, started, hist, ct>>

\* the chunk the loop of line 231 is at
CurrentChunk(rq) == rq.text_chunks[Len(rq.audio_segments) + 1]

\* the call of line 232 as the engine sees it; `ok` and `wav`, what the
\* engine answers, are filled in when it returns (read by the properties)
EngineCall(rq) ==
  [chunk |-> CurrentChunk(rq), codes |-> rq.profile.codes_file,
   ref_text |-> rq.profile.reference_text, ok |-> TRUE, wav |-> <<>>]

\* the calls of a request, the last of them answered
Returned(calls, res) ==
  [calls EXCEPT ![Len(calls)].ok = res.ok, ![Len(calls)].wav = res.wav]

\* GenInferCall with the call handed to a worker thread and awaited: the
\* loop is free while the engine works on a chunk
GenInferCallOffLoop(r) ==
  /\ req[r].pc = "g_infer"
  /\ running = r
  /\ running' = 0
  /\ engine' = engine \cup {r}
  /\ req' = [req EXCEPT ![r].pc = "g_infering",
                        ![r].calls = Append(@, EngineCall(req[r]))]
  /\ UNCHANGED <<voice_profiles, profiles_file, storage, outputs, uuid_next,
                 resp, started, hist, ct>>

\* line 232: tts.infer(chunk, ref_codes, ref_text) is entered
GenInferCall(r) ==
  /\ req[r].pc = "g_infer"
  /\ running = r
  /\ engine' = engine \cup {r}
  /\ req' = [req EXCEPT ![r].pc = "g_infering",
                        ![r].calls = Append(@, EngineCall(req[r]))]
  /\ UNCHANGED <<voice_profiles, profiles_file, storage, outputs, uuid_next,
                 running, resp, started, hist, ct>>

\* the position after chunk_wav is appended (lines 231-235)
AfterSegment(rq, segs) ==
  IF Len(segs) < Len(rq.text_chunks) THEN "g_infer" ELSE "g_concat"

\* tts.infer returns one of the waveforms, or raises
InferOutcomes ==
  {[ok |-> TRUE, wav |-> w] : w \in Waves} \cup {[ok |-> FALSE, wav |-> <<>>]}

\* GenInferReturn with the exception of a chunk swallowed: the loop goes on
\* with an empty segment
GenInferReturnSkips(r, res) ==
  /\ req[r].pc = "g_infering"
  /\ running = r
  /\ engine' = engine \ {r}
  /\ req' = [req EXCEPT
               ![r].audio_segments = Append(@, res.wav),
               ![r].calls = Returned(@, res),
               ![r].pc = AfterSegment(req[r], Append(req[r].audio_segments, res.wav))]
  /\ UNCHANGED <<voice_profiles, profiles_file, storage, outputs, uuid_next,
                 running, resp, started, hist, ct>>

\* lines 232-233: tts.infer returns a waveform, or raises, which ends the
\* request with 500 (line 258)
GenInferReturn(r, res) ==
  /\ req[r].pc = "g_infering"
  /\ running = r
  /\ engine' = engine \ {r}
  /\ IF res.ok
     THEN /\ req' = [req EXCEPT
                       ![r].audio_segments = Append(@, res.wav),
                       ![r].calls = Returned(@, res),
                       ![r].pc = AfterSegment(req[r], Append(req[r].audio_segments, res.wav))]
          /\ UNCHANGED <<running, resp>>
     ELSE /\ Respond(r, [req[r] EXCEPT !.calls = Returned(@, res)], 500, <<>>)
          /\ running' = 0
  /\ UNCHANGED <<voice_profiles, profiles_file, storage, outputs, uuid_next,
                 started, hist, ct>>

\* lines 236-254: the segments are joined, written and returned
GenFinish(r) ==
  /\ req[r].pc = "g_concat"
  /\ running = r
  /\ running' = 0
  /\ outputs' = outputs \cup {req[r].op}
  /\ Respond(r, req[r], 200, OutputWav(req[r].audio_segments))
  /\ UNCHANGED <<voice_profiles, profiles_file, storage, uuid_next, engine,
                 started, hist, ct>>

---------------------------------------------------------------------------
(* list_voices (lines 261-274) and api_status (lines 86-93) *)

ListVoices(r) ==
  /\ CanStart(r)
  /\ started' = started + 1
  /\ Respond(r, NewReq("list", None), 200, ListOutput(voice_profiles))
  /\ UNCHANGED <<voice_profiles, profiles_file, storage, outputs, uuid_next,
                 running, engine, hist, ct>>

ApiStatus(r) ==
  /\ CanStart(r)
  /\ started' = started + 1
  /\ Respond(r, NewReq("status", None), 200, <<Len(voice_profiles)>>)
  /\ UNCHANGED <<voice_profiles, profiles_file, storage, outputs, uuid_next,
                 running, engine, hist, ct>>

---------------------------------------------------------------------------
(* delete_voice (lines 276-296) *)

\* lines 279-283: the existence check (its 404 names no voices), the profile
DelBegin(r, voice_name) ==
  LET rq == NewReq("delete", voice_name)
  IN  /\ CanStart(r)
      /\ started' = started + 1
      /\ IF ~DictHas(voice_profiles, voice_name)
         THEN /\ Respond(r, rq, 404, <<>>)
              /\ UNCHANGED running
         ELSE /\ req' = [req EXCEPT ![r] = [rq EXCEPT
                           !.pc = "d_rm",
                           !.profile = DictGet(voice_profiles, voice_name)]]
              /\ running' = r
              /\ UNCHANGED resp
      /\ UNCHANGED <<voice_profiles, profiles_file, storage, outputs, uuid_next,
                     engine, hist, ct>>

\* lines 284-290: both files are removed if they exist; an exception of
\* os.remove ends the try block (the second file is then not tried) and is
\* printed
RemoveOutcomes == {"ok", "first_fails", "second_fails"}

RemovedFiles(outcome, files, profile) ==
  CASE outcome = "ok" -> files \ {profile.file, profile.codes_file}
    [] outcome = "first_fails" -> files
    [] outcome = "second_fails" -> files \ {profile.file}

\* DelRemoveFiles without the try block: an exception of os.remove ends the
\* request
DelRemoveFilesRaises(r, outcome) ==
  /\ req[r].pc = "d_rm"
  /\ running = r
  /\ outcome = "first_fails" => req[r].profile.file \in storage
  /\ outcome = "second_fails" => req[r].profile.codes_file \in storage
  /\ storage' = RemovedFiles(outcome, storage, req[r].profile)
  /\ IF outcome = "ok"
     THEN /\ req' = [req EXCEPT ![r].pc = "d_del", ![r].out = <<outcome>>]
          /\ UNCHANGED <<running, resp>>
     ELSE /\ Respond(r, req[r], 500, <<outcome>>)
          /\ running' = 0
  /\ UNCHANGED <<voice_profiles, profiles_file, outputs, uuid_next, engine,
                 started, hist, ct>>

DelRemoveFiles(r, outcome) ==
  /\ req[r].pc = "d_rm"
  /\ running = r
  /\ outcome = "first_fails" => req[r].profile.file \in storage
  /\ outcome = "second_fails" => req[r].profile.codes_file \in storage
  /\ storage' = RemovedFiles(outcome, storage, req[r].profile)
  /\ req' = [req EXCEPT ![r].pc = "d_del", ![r].out = <<outcome>>]
  /\ UNCHANGED <<voice_profiles, profiles_file, outputs, uuid_next, running,
                 engine, resp, started, hist, ct>>

\* line 293: del voice_profiles[voice_name]
DelStore(r) ==
  /\ req[r].pc = "d_del"
  /\ running = r
  /\ voice_profiles' = DictDel(voice_profiles, req[r].voice_name)
  /\ req' = [req EXCEPT ![r].pc = "d_save"]
  /\ UNCHANGED <<profiles_file, storage, outputs, uuid_next, running, engine,
                 resp, started, hist, ct>>

\* lines 294-296: save_voice_profiles(), then the answer; an exception of
\* the save leaves the handler and is answered 500 by the framework
DelSave(r, outcome) ==
  /\ req[r].pc = "d_save"
  /\ running = r
  /\ running' = 0
  /\ profiles_file' = SavedFile(outcome, profiles_file, voice_profiles)
  /\ IF outcome = "ok"
     THEN /\ Respond(r, req[r], 200, req[r].out)
          /\ hist' = HistDeleteOk(hist, req[r].voice_name)
     ELSE /\ Respond(r, req[r], 500, req[r].out)
          /\ hist' = HistDeleteErr(hist, req[r].voice_name)
  /\ UNCHANGED <<voice_profiles, storage, outputs, uuid_next, engine, started, ct>>

---------------------------------------------------------------------------
(* The server *)

Next ==
  \/ \E r \in Reqs, u \in Uploads, n \in Names :
       CloneBegin(r, u.filename, n, u.reference_text, u.audio)
  \/ \E r \in Reqs : CloneWriteTemp(r)
  \/ \E r \in Reqs : CloneNormalize(r)
  \/ \E r \in Reqs : CloneEncodeCall(r)
  \/ \E r \in Reqs, ok \in BOOLEAN : CloneEncodeReturn(r, ok)
  \/ \E r \in Reqs : CloneStore(r)
  \/ \E r \in Reqs, o \in SaveOutcomes : CloneSave(r, o)
  \/ \E r \in Reqs, k \in TextIds, n \in Names : GenBegin(r, k, n)
  \/ \E r \in Reqs : GenLoad(r)
  \/ \E r \in Reqs : GenInferCall(r)
  \/ \E r \in Reqs, res \in InferOutcomes : GenInferReturn(r, res)
  \/ \E r \in Reqs : GenFinish(r)
  \/ \E r \in Reqs : ListVoices(r)
  \/ \E r \in Reqs : ApiStatus(r)
  \/ \E r \in Reqs, n \in Names : DelBegin(r, n)
  \/ \E r \in Reqs, o \in RemoveOutcomes : DelRemoveFiles(r, o)
  \/ \E r \in Reqs : DelStore(r)
  \/ \E r \in Reqs, o \in SaveOutcomes : DelSave(r, o)

Spec == Init /\ [][Next]_vars

---------------------------------------------------------------------------
(* The process is killed and started again.  The dict, the handlers and    *)
(* the engine live in the memory of the process; the registry file and the *)
(* files under VOICES_DIR stay as they are. *)

\* the value of `running` while there is no process
Down == -1

\* how far the save_voice_profiles() of the running handler has come when
\* the process is killed: not entered, the file opened and truncated but
\* not fully written, or written
SaveProgress == {"before", "truncated", "written"}

\* the request that held the loop when the process was killed, with the
\* progress of its save; an idle record if the loop was free
Interrupted(progress) ==
  IF running \in Reqs
  THEN [req[running] EXCEPT !.out = <<progress>>]
  ELSE [IdleReq EXCEPT !.kind = "crash", !.out = <<progress>>]

\* the process is killed at any point of any handler
Crash(progress) ==
  /\ running # Down
  /\ progress # "before" =>
       /\ running \in Reqs
       /\ req[running].pc \in {"c_save", "d_save"}
  /\ running' = Down
  /\ voice_profiles' = <<>>
  /\ engine' = {}
  /\ req' = [r \in Reqs |-> IdleReq]
  /\ resp' = Interrupted(progress)
  /\ profiles_file' =
       CASE progress = "before" -> profiles_file
         [] progress = "truncated" -> SavedFile("dump_fails", profiles_file, voice_profiles)
         [] progress = "written" -> SavedFile("ok", profiles_file, voice_profiles)
  /\ UNCHANGED <<storage, outputs, uuid_next, started, hist, ct>>

\* the process starts (lines 14-59): load_voice_profiles() reads the
\* registry file; json.load raises on a truncated file and the process
\* ends before it serves a request
Start ==
  /\ running = Down
  /\ profiles_file.st # "truncated"
  /\ running' = 0
  /\ voice_profiles' = load_voice_profiles(profiles_file)
  /\ hist' = StartHist(load_voice_profiles(profiles_file))
  /\ UNCHANGED <<profiles_file, storage, outputs, uuid_next, engine, req, resp,
                 started, ct>>

NextCrash ==
  \/ Next
  \/ \E p \in SaveProgress : Crash(p)
  \/ Start

SpecCrash == Init /\ [][NextCrash]_vars

---------------------------------------------------------------------------
(* The segmenter alone: chunk_text applied to every text of at most MaxLen *)
(* characters, with every max_chars up to MaxM *)

\* the delimiter put at position i of a drawn text: all three occur
Delimiter(i) == <<".", "!", "?">>[(i % 3) + 1]

\* the texts: letters, spaces and delimiters in every arrangement
DrawnTexts ==
  UNION {{[i \in 1..n |-> IF shape[i] = "." THEN Delimiter(i) ELSE shape[i]] :
            shape \in [1..n -> {"a", " ", "."}]} : n \in 0..MaxLen}

InitChunk ==
  /\ InitServer
  /\ \E t \in DrawnTexts, m \in 0..MaxM :
       ct = [pc |-> "start", text |-> t, max_chars |-> m, result |-> <<>>]

Segment ==
  /\ ct.pc = "start"
  /\ ct' = [ct EXCEPT !.pc = "done", !.result = chunk_text(ct.text, ct.max_chars)]
  /\ UNCHANGED <<voice_profiles, profiles_file, storage, outputs, uuid_next,
                 running, engine, req, resp, started, hist>>

SpecChunk == InitChunk /\ [][Segment]_vars

---------------------------------------------------------------------------
(* Properties *)

\* the loop is free: the state is one a request can observe
Observable == running = 0

\* the requests in flight
InFlight == {r \in Reqs : req[r].pc # "idle"}

\* C1: no two calls into the inference engine (encode_reference of a clone,
\* infer of a generate) that belong to different requests are in progress
\* at the same time, in any interleaving of the requests.
EngineCallsSerialized ==
  /\ \A r1, r2 \in engine : r1 = r2
  /\ \A r \in engine : running = r /\ req[r].pc \in {"c_encoding", "g_infering"}

\* C1 witness: an engine call is in progress while another request is in
\* flight (a clone waiting for its upload).
EngineBusyWhileOtherWaits ==
  \E r \in engine, q \in InFlight : q # r /\ req[q].pc = "c_read"

\* the registry file holds exactly the dict
FileMatchesRegistry ==
  /\ profiles_file.st # "truncated"
  /\ load_voice_profiles(profiles_file) = voice_profiles

\* C2 (the claim as stated): no request observes the dict changed by a
\* clone or a delete while the registry file does not match it.
RegistryAtomicWithFile == Observable => FileMatchesRegistry

\* the profile of name n agrees with what the clone `last` sent
Matches(d, n, last) ==
  /\ DictHas(d, n)
  /\ DictGet(d, n).original_filename = last.original_filename
  /\ DictGet(d, n).reference_text = last.reference_text

\* C3: after a successful clone of n, and as long as no later clone or
\* delete of n has ended, every lookup of n (by a request that starts now,
\* and by the generate answered last) finds a profile with the original
\* file name and the reference text of that clone, None if none was sent.
CloneRoundTrip ==
  /\ \A n \in Names :
       (Observable /\ hist[n].fresh) =>
         /\ Matches(voice_profiles, n, hist[n].last)
         /\ \E i \in 1..Len(voice_profiles) :
              ListOutput(voice_profiles)[i] =
                [name |-> n, id |-> hist[n].last.id,
                 original_file |-> hist[n].last.original_filename,
                 has_reference_text |-> hist[n].last.reference_text # None]
  /\ (resp.kind = "generate" /\ resp.seen.fresh) =>
       /\ resp.code # 404
       /\ resp.code = 200 =>
            /\ resp.profile.original_filename = resp.seen.last.original_filename
            /\ resp.profile.reference_text = resp.seen.last.reference_text
            /\ \A i \in 1..Len(resp.calls) :
                 resp.calls[i].ref_text = resp.seen.last.reference_text

\* C3 witness: a clone of this run succeeded for a name, a request on the
\* other name ended after it, and a generate then found the clone's profile.
RoundTripSeen ==
  /\ resp.kind = "generate"
  /\ resp.code = 200
  /\ resp.seen.fresh
  /\ resp.seen.last.id > 0
  /\ resp.seen.last.reference_text = None

\* the names of the list_voices answer for the dict d
ListedNames(d) == {ListOutput(d)[i].name : i \in 1..Len(d)}

\* after a successful delete of n, until a clone of n succeeds, n is not
\* looked up with success and is not listed
DeletedStaysGone ==
  /\ \A n \in Names :
       (Observable /\ hist[n].gone) =>
         /\ ~DictHas(voice_profiles, n)
         /\ n \notin ListedNames(voice_profiles)
  /\ (resp.kind \in {"generate", "delete"} /\ resp.seen.gone) => resp.code = 404

\* a step in which a delete request arrives
DeleteArrives(r, n) ==
  /\ started' = started + 1
  /\ \/ resp' # resp /\ resp'.kind = "delete" /\ resp'.voice_name = n /\ r = 0
     \/ r \in Reqs /\ req[r].pc = "idle" /\ req'[r].kind = "delete"
        /\ req'[r].voice_name = n

\* a delete of a name that is not registered answers 404 and changes nothing
DeleteUnknownIsNotFound ==
  \A n \in Names, r \in Reqs \cup {0} :
    (DeleteArrives(r, n) /\ ~DictHas(voice_profiles, n)) =>
      /\ r = 0
      /\ resp'.code = 404
      /\ UNCHANGED <<voice_profiles, profiles_file, storage>>

\* C4 (the claim as stated): after a successful delete of n every lookup of
\* n reports NotFound and n is not listed, until a later clone of n
\* succeeds; a delete of an unregistered name reports NotFound and leaves
\* the registry unchanged.
DeleteThenNotFound == []DeletedStaysGone /\ [][DeleteUnknownIsNotFound]_vars

\* the items of the dict d with name n
ItemsOf(d, n) == {i \in 1..Len(d) : d[i].name = n}

\* C5 (the claim as stated): a name identifies at most one profile in every
\* reachable state; after two successful clones of a name, whatever other
\* requests that do not delete the name ran, the list holds exactly one
\* entry for it, with the id, original file name and reference text of the
\* successful clone that ended last.
OneProfilePerName ==
  /\ \A n \in Names : Cardinality(ItemsOf(voice_profiles, n)) <= 1
  /\ \A n \in Names :
       (Observable /\ hist[n].clones = 2) =>
         /\ Cardinality(ItemsOf(ListOutput(voice_profiles), n)) = 1
         /\ \A i \in ItemsOf(ListOutput(voice_profiles), n) :
              /\ ListOutput(voice_profiles)[i].id = hist[n].last.id
              /\ ListOutput(voice_profiles)[i].original_file
                   = hist[n].last.original_filename
              /\ ListOutput(voice_profiles)[i].has_reference_text
                   = (hist[n].last.reference_text # None)
              /\ voice_profiles[i].reference_text = hist[n].last.reference_text

\* C6: in every state a request can observe, both files of every profile of
\* the registry exist, whatever clone, generate and delete requests ran
\* before, with or without an error.
ProfileFilesExist ==
  Observable =>
    \A i \in 1..Len(voice_profiles) :
      /\ voice_profiles[i].file \in storage
      /\ voice_profiles[i].codes_file \in storage

\* C6 witness: a profile cloned by this run is registered and the request
\* answered last ended in an error.
ProfileLivesAfterError ==
  /\ Observable
  /\ resp.code = 500
  /\ \E i \in 1..Len(voice_profiles) : voice_profiles[i].id > 0

\* the chunks of each text a generate can send (line 227), by text
ChunksOf == [k \in TextIds |-> chunk_text(Text(k), GenMaxChars)]

\* C7: when every call of a generate succeeds, the engine was called once
\* per chunk of chunk_text, in chunk order, and the waveform written and
\* returned is the concatenation of the waveforms of the calls in that
\* order.
GenerateConcatenatesInOrder ==
  /\ (resp.kind = "generate" /\ resp.code = 200) =>
       LET chunks == ChunksOf[resp.text]
       IN  /\ Len(resp.calls) = Len(chunks)
           /\ \A i \in 1..Len(chunks) : resp.calls[i].chunk = chunks[i]
           /\ resp.out = Concatenate([i \in 1..Len(chunks) |-> resp.calls[i].wav])
           /\ resp.op \in outputs
  /\ \A r \in InFlight :
       req[r].kind = "generate" =>
         LET chunks == ChunksOf[req[r].text]
         IN  /\ Len(req[r].calls) <= Len(chunks)
             /\ \A i \in 1..Len(req[r].calls) : req[r].calls[i].chunk = chunks[i]

\* C7 witness: a generate of three chunks ended with success, the engine
\* having answered different waveforms.
ThreeChunksJoined ==
  /\ resp.kind = "generate"
  /\ resp.code = 200
  /\ Len(resp.calls) = 3
  /\ resp.calls[1].wav # resp.calls[2].wav

\* C8: if the call for a chunk k of a generate fails, the request ends with
\* 500, no waveform is written or returned, and no call is made for a chunk
\* after k.
GenerateAllOrNothing ==
  /\ (resp.kind = "generate" /\ \E i \in 1..Len(resp.calls) : ~resp.calls[i].ok) =>
       /\ resp.code = 500
       /\ resp.out = <<>>
       /\ resp.op \notin outputs
       /\ \A i \in 1..Len(resp.calls) : resp.calls[i].ok <=> i < Len(resp.calls)
  /\ \A r \in InFlight : \A i \in 1..Len(req[r].calls) : req[r].calls[i].ok

\* C8 witness: the engine failed on chunk 2 of 3.
FailedOnSecondOfThree ==
  /\ resp.kind = "generate"
  /\ Len(resp.text_chunks) = 3
  /\ Len(resp.calls) = 2
  /\ ~resp.calls[2].ok

\* the step in which the delete of slot r ends
DeleteEnds(r) == req[r].kind = "delete" /\ req[r].pc # "idle" /\ req'[r].pc = "idle"

\* C9 (the claim as stated): a delete of a registered name always removes
\* the entry and reports success, whether or not a file removal fails.
DeleteAlwaysSucceeds ==
  [][\A r \in Reqs :
       DeleteEnds(r) =>
         /\ resp'.code = 200
         /\ ~DictHas(voice_profiles', req[r].voice_name)]_vars

\* C9 (amended): a delete of a registered name always removes the entry
\* from the dict, whether or not a file removal fails, and a failed removal
\* never reaches the caller: the delete ends after its save, with 200 if
\* the registry file was rewritten and with 500 only if the save failed.
DeleteSwallowsRemoveFailures ==
  [][\A r \in Reqs :
       DeleteEnds(r) =>
         /\ req[r].pc = "d_save"
         /\ ~DictHas(voice_profiles', req[r].voice_name)
         /\ resp'.code \in {200, 500}
         /\ resp'.code = 200 => profiles_file' = [st |-> "ok", data |-> voice_profiles']
         /\ resp'.code = 500 =>
              \/ profiles_file' = profiles_file
              \/ profiles_file'.st = "truncated"]_vars

\* C9 witness: a delete ended with success although a file removal failed.
DeletedDespiteRemoveFailure ==
  /\ resp.kind = "delete"
  /\ resp.code = 200
  /\ resp.out \in {<<"first_fails">>, <<"second_fails">>}

\* the non-empty trimmed sentences of a text
TrimmedSentences(text) ==
  {Strip(Sentences(text)[i]) : i \in 1..Len(Sentences(text))} \ {<<>>}

\* the chunk is one sentence with its "." and the sentence has length in L
OneSentence(chunk, text, L) ==
  \E s \in TrimmedSentences(text) : chunk = s \o <<".">> /\ Len(s) \in L

\* C10 (the claim as stated): every chunk has at most max_chars characters,
\* except a chunk of exactly one sentence whose own text is longer than
\* max_chars.
ChunkBound ==
  ct.pc = "done" =>
    \A i \in 1..Len(ct.result) :
      \/ Len(ct.result[i]) <= ct.max_chars
      \/ OneSentence(ct.result[i], ct.text, (ct.max_chars + 1)..Len(ct.text))

\* C10 (amended): every chunk has at most max_chars characters, except a
\* chunk of exactly one sentence whose own text has at least max_chars
\* characters (its chunk, the sentence and ".", is longer than max_chars),
\* and except the single chunk [text] of a text longer than max_chars that
\* holds no sentence.
ChunkBoundOrWholeSentence ==
  ct.pc = "done" =>
    \A i \in 1..Len(ct.result) :
      \/ Len(ct.result[i]) <= ct.max_chars
      \/ OneSentence(ct.result[i], ct.text, ct.max_chars..Len(ct.text))
      \/ TrimmedSentences(ct.text) = {} /\ ct.result = <<ct.text>>

\* C10 witness: a text of several chunks, one of them a sentence of exactly
\* max_chars characters, whose chunk has max_chars + 1.
SentenceOfExactlyMaxChars ==
  /\ ct.pc = "done"
  /\ Len(ct.result) >= 2
  /\ ct.max_chars >= 2
  /\ \E i \in 1..Len(ct.result) :
       /\ Len(ct.result[i]) = ct.max_chars + 1
       /\ OneSentence(ct.result[i], ct.text, {ct.max_chars})


\* a chunk split at the separator ". " (a "." followed by a space)
RECURSIVE SplitSeparator(_)
SplitSeparator(s) ==
  IF \A i \in 1..(Len(s) - 1) : ~(s[i] = "." /\ s[i + 1] = " ")
  THEN <<s>>
  ELSE LET k == CHOOSE i \in 1..(Len(s) - 1) :
                  /\ s[i] = "." /\ s[i + 1] = " "
                  /\ \A j \in 1..(i - 1) : ~(s[j] = "." /\ s[j + 1] = " ")
       IN  <<SubSeq(s, 1, k - 1)>> \o SplitSeparator(SubSeq(s, k + 2, Len(s)))

\* the "." that ends a chunk, taken off
DropLastDot(s) ==
  IF s # <<>> /\ s[Len(s)] = "." THEN SubSeq(s, 1, Len(s) - 1) ELSE s

\* a chunk split back at its separators: the pieces between ". ", the last
\* of them without the "." that ends the chunk
SplitBack(chunk) ==
  LET p == SplitSeparator(chunk)
  IN  [i \in 1..Len(p) |-> IF i = Len(p) THEN DropLastDot(p[i]) ELSE p[i]]

\* the pieces of all chunks, in order
RECURSIVE PiecesOf(_)
PiecesOf(chunks) ==
  IF chunks = <<>> THEN <<>> ELSE SplitBack(Head(chunks)) \o PiecesOf(Tail(chunks))

\* the strings of a sequence trimmed, the empty ones left out
NonEmptyTrimmed(strings) ==
  SelectSeq([i \in 1..Len(strings) |-> Strip(strings[i])], LAMBDA s : s # <<>>)

\* the non-empty trimmed sentences of a text, in order
SentenceList(text) == NonEmptyTrimmed(Sentences(text))

\* C11 (the claim as stated): for every text, the chunks split back at the
\* ". " separators are exactly the non-empty trimmed sentences of the text,
\* each once and in their order (pieces that are empty or whitespace do not
\* count, and a piece counts trimmed).
ChunksCoverSentences ==
  ct.pc = "done" => NonEmptyTrimmed(PiecesOf(ct.result)) = SentenceList(ct.text)

\* C11 (amended): for every text longer than max_chars that holds a
\* non-empty sentence, the chunks split back at the ". " separators are
\* exactly the non-empty trimmed sentences of the text, each once and in
\* their order; for every other text the result is the single chunk that is
\* the text itself, delimiters and whitespace as they were.
LongTextChunksCoverSentences ==
  ct.pc = "done" =>
    IF Len(ct.text) > ct.max_chars /\ SentenceList(ct.text) # <<>>
    THEN PiecesOf(ct.result) = SentenceList(ct.text)
    ELSE ct.result = <<ct.text>>

\* C11 witness: a long text of four sentences, cut at "!" or "?" too, that
\* came back as two chunks of two sentences each.
TwoChunksOfTwoSentences ==
  /\ ct.pc = "done"
  /\ Len(ct.text) > ct.max_chars
  /\ Len(SentenceList(ct.text)) = 4
  /\ \E i \in 1..Len(ct.text) : ct.text[i] \in {"!", "?"}
  /\ Len(ct.result) = 2
  /\ Len(SplitBack(ct.result[1])) = 2
  /\ Len(SplitBack(ct.result[2])) = 2


\* C12: for every text of at most max_chars characters chunk_text returns
\* exactly one chunk, equal to the text character for character.
ShortTextIsOneChunk ==
  (ct.pc = "done" /\ Len(ct.text) <= ct.max_chars) => ct.result = <<ct.text>>

\* C12 witness: a short text of two sentences with "!" or "?" in it and
\* whitespace at its end came back as it was.
ShortTextKeptAsItIs ==
  /\ ct.pc = "done"
  /\ Len(ct.text) <= ct.max_chars
  /\ Len(SentenceList(ct.text)) = 2
  /\ \E i \in 1..Len(ct.text) : ct.text[i] \in {"!", "?"}
  /\ ct.text[Len(ct.text)] = " "
  /\ ct.result = <<ct.text>>


\* the step in which a generate or a delete is answered 404
NotFoundAnswered ==
  /\ resp' # resp
  /\ resp'.kind \in {"generate", "delete"}
  /\ resp'.code = 404

\* C13 (the claim as stated): every not-found answer for an unknown voice
\* name, of a generate or of a delete, carries the names that are in the
\* registry at the moment it is raised.
NotFoundCarriesVoiceList ==
  [][NotFoundAnswered =>
       /\ ~DictHas(voice_profiles, resp'.voice_name)
       /\ resp'.out = DictKeys(voice_profiles)]_vars


\* C14 (the claim as stated): a clone whose decoded audio is silent (peak
\* amplitude zero) fails at the normalization: it never writes the
\* preprocessed file, never reaches the engine or the registry, and is not
\* answered with success.
SilentInputRejected ==
  /\ \A r \in InFlight :
       (req[r].kind = "clone" /\ req[r].audio = "silent") =>
         /\ req[r].pc \in {"c_read", "c_load"}
         /\ WavPath(req[r].voice_id) \notin storage
         /\ r \notin engine
  /\ (resp.kind = "clone" /\ resp.audio = "silent") =>
       /\ resp.code # 200
       /\ \A i \in 1..Len(voice_profiles) : voice_profiles[i].id # resp.voice_id


\* the step in which a clone of a file with an extension outside the
\* accepted set arrives
UnsupportedCloneArrives ==
  /\ started' = started + 1
  /\ resp' # resp
  /\ resp'.kind = "clone"
  /\ ~ValidExt(resp'.filename)

\* C15 (the claim as stated): a clone of a file whose extension is not
\* accepted is rejected as an unsupported format (400, not the 500 of the
\* engine and internal failures) before a file is written, the engine is
\* called or the registry is touched.
UnsupportedFormatIsItsOwnClass ==
  [][/\ UnsupportedCloneArrives =>
          /\ resp'.code = 400
          /\ UNCHANGED <<voice_profiles, profiles_file, storage, engine>>
     /\ \A r \in Reqs :
          (req'[r].kind = "clone" /\ req'[r].pc # "idle") => ValidExt(req'[r].filename)
    ]_vars


\* the clone of slot r has written its preprocessed audio and has not yet
\* entered save_voice_profiles() (lines 131-155)
CloneBeforeRewrite(r) ==
  /\ req[r].kind = "clone"
  /\ req[r].pc \in {"c_encode", "c_encoding", "c_store", "c_save"}

\* no item of the registry file refers to the clone with this id or to a
\* file of it
Unreferenced(file, id) ==
  \A i \in 1..Len(file.data) :
    /\ file.data[i].id # id
    /\ file.data[i].file # WavPath(id)
    /\ file.data[i].codes_file # CodesPath(id)

\* the step is one of save_voice_profiles(): the save of CloneSave, or a
\* kill of the process after the save has opened the file
RewriteStep(r) ==
  /\ req[r].pc = "c_save"
  /\ \/ running' = 0
     \/ running' = Down /\ resp'.out # <<"before">>

\* the process starts after it was killed while a clone was between the
\* writing of its files and the rewrite of the registry file
StartAfterCrashedClone ==
  /\ running = Down
  /\ running' = 0
  /\ resp.kind = "clone"
  /\ resp.pc \in {"c_encode", "c_encoding", "c_store", "c_save"}
  /\ resp.out = <<"before">>

\* C16: while a clone is between the writing of its files and the rewrite
\* of the registry file, the registry file holds no item of that clone and
\* no step changes it, a kill of the process included; the process that
\* starts after such a kill loads exactly that file, and no loaded profile
\* refers to the interrupted clone or its files.
CrashedCloneLeavesRegistryFile ==
  [][/\ \A r \in Reqs :
          CloneBeforeRewrite(r) =>
            /\ running = r
            /\ WavPath(req[r].voice_id) \in storage
            /\ Unreferenced(profiles_file, req[r].voice_id)
            /\ ~RewriteStep(r) =>
                 /\ profiles_file' = profiles_file
                 /\ WavPath(req[r].voice_id) \in storage'
     /\ StartAfterCrashedClone =>
          /\ profiles_file' = profiles_file
          /\ voice_profiles' = load_voice_profiles(profiles_file)
          /\ Unreferenced([st |-> "ok", data |-> voice_profiles'], resp.voice_id)
          /\ WavPath(resp.voice_id) \in storage'
    ]_vars

\* C16 witness: the process was killed when a clone had written both files
\* and stored its profile in the dict, and has started again: the files of
\* the clone exist, the loaded registry is the one of before.
RestartedAfterCrashedClone ==
  /\ running = 0
  /\ resp.kind = "clone"
  /\ resp.pc = "c_save"
  /\ resp.out = <<"before">>
  /\ {WavPath(resp.voice_id), CodesPath(resp.voice_id)} \subseteq storage
  /\ voice_profiles = <<OldProfile>>
  /\ profiles_file = [st |-> "ok", data |-> <<OldProfile>>]


\* a generate that has its chunks has at least one, makes at least one call
\* of the engine, and has a first segment when it joins them
GenerateHasFirstSegment ==
  /\ \A r \in InFlight :
       (req[r].kind = "generate" /\ req[r].pc # "g_load") =>
         /\ Len(req[r].text_chunks) >= 1
         /\ req[r].pc = "g_concat" => Len(req[r].audio_segments) >= 1
  /\ (resp.kind = "generate" /\ resp.code = 200) =>
       /\ Len(resp.calls) >= 1
       /\ Len(resp.audio_segments) >= 1

\* C17: chunk_text returns at least one chunk for every text and every
\* max_chars; a text longer than max_chars without a non-empty sentence
\* comes back as the single chunk [text]; so a generate always has a chunk
\* to call the engine with and a first segment to return.
ChunkTextNeverEmpty ==
  /\ ct.pc = "done" =>
       /\ Len(ct.result) >= 1
       /\ (Len(ct.text) > ct.max_chars /\ SentenceList(ct.text) = <<>>) =>
            ct.result = <<ct.text>>
  /\ GenerateHasFirstSegment

\* C17 witness: a text of delimiters and whitespace only, longer than
\* max_chars, came back whole.
DelimitersOnlyCameBackWhole ==
  /\ ct.pc = "done"
  /\ Len(ct.text) > ct.max_chars
  /\ ct.max_chars >= 1
  /\ \A i \in 1..Len(ct.text) : ct.text[i] \in {".", "!", "?", " "}
  /\ \E i \in 1..Len(ct.text) : ct.text[i] = " "
  /\ \E i \in 1..Len(ct.text) : ct.text[i] = "?"
  /\ ct.result = <<ct.text>>


\* the generate of slot r has passed the existence check of line 212
GeneratePastCheck(r) == req[r].kind = "generate" /\ req[r].pc # "idle"

\* C18: from the existence check of a generate for voice n to its last
\* chunk call, the generate holds the loop and no other handler takes a
\* step, so no delete or clone of n takes effect: n stays registered with
\* the same profile, its encoding file exists when it is loaded, and every
\* engine call of the request is made with the data of that one profile.
GenerateSeesOneProfile ==
  [][\A r \in Reqs :
       GeneratePastCheck(r) =>
         /\ running = r
         /\ \A q \in Reqs \ {r} : req'[q] = req[q] /\ req[q].pc \in {"idle", "c_read"}
         /\ UNCHANGED <<voice_profiles, profiles_file, storage>>
         /\ DictHas(voice_profiles, req[r].voice_name)
         /\ DictGet(voice_profiles, req[r].voice_name).codes_file \in storage
         /\ req[r].pc # "g_load" =>
              /\ req[r].profile = DictGet(voice_profiles, req[r].voice_name)
              /\ \A i \in 1..Len(req[r].calls) :
                   /\ req[r].calls[i].codes = req[r].profile.codes_file
                   /\ req[r].calls[i].ref_text = req[r].profile.reference_text
         /\ (req'[r].pc = "idle" /\ resp'.code = 500) =>
              /\ req[r].pc = "g_infering"
              /\ ~resp'.calls[Len(resp'.calls)].ok
    ]_vars

\* C18 witness: a generate for a name is at its second chunk call while a
\* clone of the same name waits for its upload.
GenerateRunsWhileCloneWaits ==
  \E r, q \in Reqs :
    /\ req[r].kind = "generate"
    /\ req[r].pc = "g_infering"
    /\ Len(req[r].calls) = 2
    /\ req[q].kind = "clone"
    /\ req[q].pc = "c_read"
    /\ req[q].voice_name = req[r].voice_name


\* the step in which the clone of slot r, or a clone that is rejected as it
\* arrives (r = 0), ends with an error; id is its uuid, 0 if it has none
CloneEndsInError(r, id) ==
  /\ resp' # resp
  /\ resp'.kind = "clone"
  /\ resp'.code # 200
  /\ resp'.voice_id = id
  /\ \/ r = 0 /\ started' = started + 1
     \/ r \in Reqs /\ req[r].kind = "clone" /\ req[r].pc # "idle"
        /\ req'[r].pc = "idle" /\ req[r].voice_id = id

\* C19 (the claim as stated): a clone that ends with an error has added or
\* overwritten no entry: the dict the later requests look into holds no
\* profile made by that clone.
FailedCloneLeavesRegistry ==
  [][\A r \in Reqs \cup {0}, id \in 0..MaxOps :
       CloneEndsInError(r, id) =>
         \A i \in 1..Len(voice_profiles') :
           id = 0 \/ voice_profiles'[i].id # id]_vars


\* the step in which the process starts
ProcessStarts == running = Down /\ running' = 0

\* C20 (the claim as stated): at every start of the process every profile
\* loaded from the registry file has both of its files on storage, whatever
\* step of a delete or of its save an earlier process was killed or failed
\* at.
LoadedProfilesHaveFiles ==
  [][ProcessStarts =>
       \A i \in 1..Len(voice_profiles') :
         /\ voice_profiles'[i].file \in storage'
         /\ voice_profiles'[i].codes_file \in storage']_vars

=============================================================================
